---- MODULE Spec2Model ----
(***************************************************************************)
(* Job lifecycle, escrow ledger and result paywall of the OpenClaw bot     *)
(* marketplace.                                                            *)
(*                                                                         *)
(* The server is one Node.js process: the code between two awaits runs     *)
(* without interruption, and every await (a database query, a chain RPC)   *)
(* is a point where another request may run.  A request handler is         *)
(* therefore a sequence of atomic steps, one action each; the handler's    *)
(* position and its local variables are an element of the bag req.         *)
(* A request that is answered from its first read writes nothing: its      *)
(* answer is given by the StartReply operator of its route, a function of  *)
(* the current state, and the request takes no step of the model.          *)
(* Consecutive awaits are folded into one step only where no write of      *)
(* another request can be observed between them in a way a later           *)
(* interleaving point of the same handler does not also allow.             *)
(***************************************************************************)
EXTENDS Integers, Sequences, FiniteSets, Bags, TLC

VARIABLES
    store,          \* which escrow ledger is running: "map" (in-memory Map/Set) or "sql"
    platformWallet, \* TRUE iff PLATFORM_WALLET is configured
    jobs,           \* the jobs table, by job number
    escrow,         \* the escrow records, by job number
    usedDepositTxs, \* the Used-Deposit Set
    out,            \* per job, the escrow transactions built and submitted to the chain
    payLanded,      \* the client payment transactions that landed on the chain
    req,            \* the running handlers: a bag of [position, locals]
    resp,           \* the HTTP response sent by the step just taken (NoResp if none)
    claimWins,      \* history: per job, the wallets of the claim requests answered 200
    settled,        \* history: per job, the settlements accepted (path, transaction)
    depositOk,      \* history: the (job, deposit transaction) pairs an escrow record was created for
    fees,           \* the last call of calculateFees: its input, the configured fee, its result
    limiter,        \* the rate limiter: the clock, rateLimitStore, its last answer, and
                    \* (history) per client and tick the requests it let through
    events          \* history: per job and event type, the events handed to the
                    \* WebSocket hub (wsHub.broadcastJob...)

vars == <<store, platformWallet, jobs, escrow, usedDepositTxs, out, payLanded,
          req, resp, claimWins, settled, depositOk, fees, limiter,
          events>>

----------------------------------------------------------------------------
(* Bounds of the model *)

MaxJobs == 2      \* jobs of the ledger specification (SpecLedger)
FullJobs == 1     \* jobs of the full-lifecycle specification (Spec)
NumSlots == 2     \* requests in flight at once
MaxEscTx == 2     \* escrow transactions submitted per job
MaxNow == 4       \* ticks of the rate limiter's clock (SpecRate)
MaxOver == 1      \* requests counted beyond the limit within one window (SpecRate)

(* The rate limiter's two constants, scaled: the clock of the model ticks  *)
(* once per WindowTicks-th of RATE_LIMIT_WINDOW_MS (60 s in the code), and *)
(* MaxRequests stands for RATE_LIMIT_MAX_REQUESTS (100 in the code).       *)
WindowTicks == 2
MaxRequests == 2

Jobs == 1..MaxJobs

(* Program constants *)

PLATFORM_FEE_PERCENT == 5
PreviewLen == 100

(* Wallets: A posts jobs, B and C work, ESCROW is the escrow wallet. *)
Requester == "A"
Workers == {"B", "C"}
EscrowWallet == "ESCROW"
PlatformAddr == "PLATFORM"
NoWallet == "none"

(* A bountyUsdc of a request body: whole USDC and the fraction in units   *)
(* of 10^-7 USDC (a tenth of an atomic unit).                             *)
Usdc(usdc, frac) == [usdc |-> usdc, frac |-> frac]
Bounties == {Usdc(0, 400)}
ResultLens == {100, 101}

(* Transaction ids.  Deposits and client payments exist outside the system; *)
(* escrow releases and refunds are numbered per job in submission order.    *)
NoTx == <<>>
DepositSigs == {<<"dep", 1>>, <<"dep", 2>>, <<"dep", 3>>}
FullSigs == {<<"dep", 1>>, <<"dep", 3>>}     \* the deposits presented under Spec
PaySigs == {<<"pay", 1>>, <<"pay", 2>>}
EscTx(j, n) == <<"esc", j, n>>

----------------------------------------------------------------------------
(* Status names *)

PENDING_DEPOSIT == "pending_deposit"
OPEN == "open"
CLAIMED == "claimed"
COMPLETED == "completed"
PAID == "paid"
CANCELLED == "cancelled"
EXPIRED == "expired"
ABSENT == "absent"

NoJob == [status |-> ABSENT, requesterWallet |-> NoWallet, workerWallet |-> NoWallet,
          bountyUsdc |-> 0, bountyAtomic |-> 0, resultLen |-> 0, depositTxSig |-> NoTx,
          paymentTxSig |-> NoTx, paidWrites |-> 0, claimedWrites |-> 0,
          completedWrites |-> 0,
          createdAt |-> 0, claimedAt |-> 0, completedAt |-> 0, paidAt |-> 0]

(* NOW() as an UPDATE of a job's row reads it: the clock does not run      *)
(* backwards, so it is later than every timestamp stored on the row.       *)
(* Timestamps are counted per job from 1; 0 stands for null.               *)
Later(a, b) == IF a >= b THEN a ELSE b

NOW(job) ==
    1 + Later(Later(job.createdAt, job.claimedAt), Later(job.completedAt, job.paidAt))

NoRecord == [status |-> "none", requesterWallet |-> NoWallet, workerWallet |-> NoWallet,
             amountAtomic |-> 0, depositTxSig |-> NoTx, releaseTxSig |-> NoTx,
             writes |-> 0, gen |-> 0]

(* A running handler: its position pc, the job of its URL, and its locals. *)
(* WsEventType: the lifecycle events of a job, counted per type. *)
NoEvents == [new |-> 0, claimed |-> 0, completed |-> 0, paid |-> 0]

(* wsHub.broadcast: one more event of the type for the job. *)
broadcast(j, type) == events' = [events EXCEPT ![j][type] = @ + 1]

IPs == {"ip1", "ip2"}
Ticks == 0..MaxNow
NoRate == [present |-> FALSE, count |-> 0, resetAt |-> 0]
NoLimiter == [now |-> 0,
              rateLimitStore |-> [ip \in IPs |-> NoRate],
              reply |-> [ip |-> "none", code |-> 0, retryAfter |-> 0],
              admitted |-> [ip \in IPs |-> [t \in Ticks |-> 0]]]

NoFees == [totalAtomic |-> 0, basisPoints |-> 0, called |-> FALSE,
           workerAmount |-> 0, platformFee |-> 0]

Handler(pc, j) ==
    [pc |-> pc, job |-> j, wallet |-> NoWallet, tx |-> NoTx, n |-> 0, g |-> 0,
     seen |-> "absent"]

(* A response: the route, the job, the HTTP status, the message, the       *)
(* number of characters of the result text in the body, the transaction    *)
(* id in the body, and the payment challenge of the X-Payment-Required     *)
(* header.                                                                 *)
NoChallenge == [payTo |-> NoWallet, maxAmountRequired |-> 0]

NoResp ==
    [op |-> "none", job |-> 0, code |-> 0, msg |-> "", chars |-> 0, tx |-> NoTx,
     challenge |-> NoChallenge]

Reply(op, j, code, msg) == [NoResp EXCEPT !.op = op, !.job = j, !.code = code, !.msg = msg]

ResultBody(op, j, code, msg, chars, tx) ==
    [Reply(op, j, code, msg) EXCEPT !.chars = chars, !.tx = tx]

(* What a StartReply operator gives when the handler goes on instead of    *)
(* answering.                                                              *)
Continue == [NoResp EXCEPT !.op = "continue"]

Min(a, b) == IF a < b THEN a ELSE b

----------------------------------------------------------------------------
(* Fee split (config/constants calculateFees): integer division, the       *)
(* remainder stays with the worker.                                        *)

feePercent == PLATFORM_FEE_PERCENT * 100

(* Variant that rounds the fee up instead of down. *)
calculateFeesRoundUp(totalAtomic, basisPoints) ==
    LET fee == (totalAtomic * basisPoints + 9999) \div 10000
    IN [workerAmount |-> totalAtomic - fee, platformFee |-> fee]

(* calculateFees for a configured fee of basisPoints (the value of its     *)
(* local feePercent): bigint arithmetic, the division truncates.           *)
calculateFees(totalAtomic, basisPoints) ==
    LET fee == (totalAtomic * basisPoints) \div 10000
    IN [workerAmount |-> totalAtomic - fee, platformFee |-> fee]

platformFee(totalAtomic) == calculateFees(totalAtomic, feePercent).platformFee

workerAmount(totalAtomic) == calculateFees(totalAtomic, feePercent).workerAmount

----------------------------------------------------------------------------
(* The chain, as far as the server reads it: the token credits of a        *)
(* confirmed transaction, one [owner, amount] per account whose balance    *)
(* grew.  Deposits were made by clients before they are presented; a       *)
(* client payment has credits once it landed; an escrow transaction has    *)
(* the credits the server built into it, once it landed.                   *)

DepositSender(sig) == IF sig = <<"dep", 2>> THEN "C" ELSE Requester

DepositCredits(sig) ==
    IF sig = <<"dep", 3>> THEN {[owner |-> EscrowWallet, amount |-> 39]}
    ELSE {[owner |-> EscrowWallet, amount |-> 40]}

PayCredits(sig) ==
    IF sig = <<"pay", 1>> THEN {[owner |-> "B", amount |-> 40]}
    ELSE {[owner |-> "B", amount |-> 38], [owner |-> PlatformAddr, amount |-> 2]}

(* releaseToWorker: the worker transfer, and the fee transfer only when a  *)
(* platform wallet is configured and the fee is positive.                  *)
ReleaseTransfers(worker, amountAtomic, hasPlatform) ==
    {[owner |-> worker, amount |-> workerAmount(amountAtomic)]}
      \cup (IF hasPlatform /\ platformFee(amountAtomic) > 0
            THEN {[owner |-> PlatformAddr, amount |-> platformFee(amountAtomic)]}
            ELSE {})

(* refundToRequester: one transfer of the full amount, no fee. *)
RefundTransfers(requester, amountAtomic) ==
    {[owner |-> requester, amount |-> amountAtomic]}

(* The chain as a request sees it at one moment. *)
Chain == [pay |-> payLanded, out |-> out]

Credits(conn, sig) ==
    IF sig \in DepositSigs THEN DepositCredits(sig)
    ELSE IF sig \in PaySigs THEN (IF sig \in conn.pay THEN PayCredits(sig) ELSE {})
    ELSE IF sig = NoTx THEN {}
    ELSE LET j == sig[2]
             n == sig[3]
         IN IF j \in Jobs /\ n \in 1..Len(conn.out[j]) /\ conn.out[j][n].state = "landed"
            THEN conn.out[j][n].transfers ELSE {}

(* usdc verifyUsdcTransfer: some account owned by the expected recipient   *)
(* grew by at least the expected amount.  expectedSender is not read.      *)
verifyUsdcTransfer(conn, signature, expectedSender, expectedRecipient, expectedAmountAtomic) ==
    \E c \in Credits(conn, signature) :
        c.owner = expectedRecipient /\ c.amount >= expectedAmountAtomic

----------------------------------------------------------------------------
(* Job store (models/job): every mutation is one UPDATE ... WHERE; the     *)
(* Where operator is its WHERE clause on the current row, the Set operator *)
(* its SET clause.                                                         *)

(* CreateJobSchema, the bountyUsdc field: z.number().positive().max(1000). *)
CreateJobSchema(bountyUsdc) ==
    /\ bountyUsdc.usdc > 0 \/ bountyUsdc.frac > 0
    /\ bountyUsdc.usdc < 1000 \/ (bountyUsdc.usdc = 1000 /\ bountyUsdc.frac = 0)

(* Math.round of a count of tenths: the nearest integer, a half goes up.   *)
MathRound(tenths) == (tenths + 5) \div 10

(* Math.round(bountyUsdc * 1e6) *)
toAtomic(bountyUsdc) == bountyUsdc.usdc * 1000000 + MathRound(bountyUsdc.frac)

(* The bounty_usdc column is DECIMAL(18, 6): the stored bountyUsdc is the  *)
(* input rounded to six decimals, held here in units of 10^-6 USDC.        *)
createJob(requesterWallet, bountyUsdc) ==
    [NoJob EXCEPT !.status = PENDING_DEPOSIT, !.requesterWallet = requesterWallet,
                  !.bountyUsdc = toAtomic(bountyUsdc),
                  !.bountyAtomic = toAtomic(bountyUsdc), !.createdAt = NOW(NoJob)]

activateJobWhere(job) == job.status = PENDING_DEPOSIT
activateJobSet(job, depositTxSig) ==
    [job EXCEPT !.status = OPEN, !.depositTxSig = depositTxSig]

(* Variants without the status condition of the WHERE clause: with them    *)
(* the lifecycle properties below fail.                                    *)
cancelJobAnyStatus(job, requesterWallet) == job.requesterWallet = requesterWallet

claimJobAnyStatus(job) == job.status # ABSENT

cancelJobWhere(job, requesterWallet) ==
    job.requesterWallet = requesterWallet /\ job.status \in {PENDING_DEPOSIT, OPEN}
cancelJobSet(job) == [job EXCEPT !.status = CANCELLED]

(* Variant without the status condition: any job can be expired. *)
expireJobAnyStatus(job) == job.status # ABSENT

(* Variant that deletes the row of an expired job instead of keeping it.   *)
expireJobDeletes(job) == NoJob

expireJobWhere(job) == job.status = OPEN
expireJobSet(job) == [job EXCEPT !.status = EXPIRED]

claimJobWhere(job) == job.status = OPEN
claimJobSet(job, workerWallet) ==
    [job EXCEPT !.workerWallet = workerWallet, !.status = CLAIMED, !.claimedWrites = @ + 1,
                !.claimedAt = NOW(job)]

(* Variant without the status condition: a late complete writes again. *)
completeJobAnyStatus(job, workerWallet) == job.workerWallet = workerWallet

completeJobWhere(job, workerWallet) ==
    job.status = CLAIMED /\ job.workerWallet = workerWallet
completeJobSet(job, resultLen) ==
    [job EXCEPT !.status = COMPLETED, !.resultLen = resultLen, !.completedWrites = @ + 1,
                !.completedAt = NOW(job)]

(* Variant without the status condition: a second markPaid overwrites. *)
markJobPaidAnyStatus(job) == job.status # ABSENT

markJobPaidWhere(job) == job.status = COMPLETED
markJobPaidSet(job, txSig) ==
    [job EXCEPT !.status = PAID, !.paymentTxSig = txSig, !.paidWrites = @ + 1,
                !.paidAt = NOW(job)]

(* markEscrowReleased has no status condition: WHERE id = $3 only. *)
markEscrowReleasedWhere(job) == job.status # ABSENT
markEscrowReleasedSet(job, releaseTxSig) ==
    [job EXCEPT !.status = PAID, !.paymentTxSig = releaseTxSig, !.paidWrites = @ + 1,
                !.paidAt = NOW(job)]

hasResult(job) == job.resultLen > 0

----------------------------------------------------------------------------
(* Escrow ledger reads *)

hasVerifiedEscrow(j) == escrow[j].status = "held"

----------------------------------------------------------------------------
(* Running handlers *)

Running == BagToSet(req)

Spawn(q) ==
    /\ BagCardinality(req) < NumSlots
    /\ req' = req (+) SetToBag({q})
    /\ resp' = NoResp

Goto(q, q2) ==
    /\ req' = (req (-) SetToBag({q})) (+) SetToBag({q2})
    /\ resp' = NoResp

Finish(q, response) ==
    /\ req' = req (-) SetToBag({q})
    /\ resp' = response

(* The server after startup, before any request. *)
Started ==
    /\ store \in {"map", "sql"}
    /\ platformWallet \in BOOLEAN
    /\ jobs = [j \in Jobs |-> NoJob]
    /\ escrow = [j \in Jobs |-> NoRecord]
    /\ usedDepositTxs = {}
    /\ out = [j \in Jobs |-> <<>>]
    /\ payLanded = {}
    /\ req = EmptyBag
    /\ resp = NoResp
    /\ claimWins = [j \in Jobs |-> <<>>]
    /\ settled = [j \in Jobs |-> {}]
    /\ depositOk = {}
    /\ limiter = NoLimiter
    /\ events = [j \in Jobs |-> NoEvents]

Init == Started /\ fees = NoFees

----------------------------------------------------------------------------
(* POST /jobs: JobService.create, createJob.  Job numbers stand for the    *)
(* random ids and are handed out in order.                                 *)

Create(j, bountyUsdc) ==
    /\ CreateJobSchema(bountyUsdc)
    /\ jobs[j].status = ABSENT
    /\ \A i \in Jobs : i < j => jobs[i].status # ABSENT
    /\ jobs' = [jobs EXCEPT ![j] = createJob(Requester, bountyUsdc)]
    /\ resp' = NoResp
    /\ UNCHANGED <<events, limiter, fees, store, platformWallet, escrow, usedDepositTxs, out, payLanded, req,
                   claimWins, settled, depositOk>>

(* POST /jobs with a body CreateJobSchema.parse refuses: 400, no job.     *)
CreateRejected(bountyUsdc) ==
    /\ ~CreateJobSchema(bountyUsdc)
    /\ resp' = Reply("create", 0, 400, "Validation failed")
    /\ UNCHANGED <<events, limiter, fees, store, platformWallet, jobs, escrow, usedDepositTxs, out, payLanded,
                   req, claimWins, settled, depositOk>>

----------------------------------------------------------------------------
(* POST /jobs/:id/deposit.                                                 *)
(*   DepositStart   the route reads the job; verifyDeposit tests the       *)
(*                  Used-Deposit Set and the job's record, then fetches    *)
(*                  the transaction (its credits never change)             *)
(*   DepositCommit  verifyDeposit writes the record and the used set       *)
(*                  (map: both at once; sql: two INSERTs, two steps)       *)
(*   DepositInsertUsed  sql only: the second INSERT                        *)
(*   DepositActivateRead  JobService.activate reads the job                *)
(*   DepositActivate      activateJob's conditional UPDATE                 *)

NewRecord(j, requesterWallet, expectedAmountAtomic, depositTxSig) ==
    [NoRecord EXCEPT !.status = "held", !.requesterWallet = requesterWallet,
                     !.amountAtomic = expectedAmountAtomic,
                     !.depositTxSig = depositTxSig,
                     !.gen = escrow[j].gen + 1]

DepositStartReply(j, sig) ==
    IF jobs[j].status = ABSENT
    THEN Reply("deposit", j, 404, "Job not found")
    ELSE IF jobs[j].status # PENDING_DEPOSIT
    THEN Reply("deposit", j, 400, "Job not pending deposit")
    ELSE IF sig \in usedDepositTxs
    THEN Reply("deposit", j, 400, "Deposit transaction already used")
    ELSE IF escrow[j].status # "none"
    THEN Reply("deposit", j, 400, "Job already has escrow deposit")
    ELSE IF ~verifyUsdcTransfer(Chain, sig, jobs[j].requesterWallet, EscrowWallet,
                                jobs[j].bountyAtomic)
    THEN Reply("deposit", j, 400, "Deposit not verified")
    ELSE Continue

DepositStart(j, sig) ==
    /\ DepositStartReply(j, sig) = Continue
    /\ Spawn([Handler("dep_commit", j) EXCEPT !.tx = sig,
                                              !.wallet = jobs[j].requesterWallet,
                                              !.n = jobs[j].bountyAtomic])
    /\ UNCHANGED <<events, limiter, fees, store, platformWallet, jobs, escrow, usedDepositTxs, out, payLanded,
                   claimWins, settled, depositOk>>

DepositCommit(q) ==
    LET j == q.job
        record == NewRecord(j, q.wallet, q.n, q.tx)
    IN
    /\ q.pc = "dep_commit"
    /\ UNCHANGED <<events, limiter, fees, store, platformWallet, jobs, out, payLanded, claimWins, settled>>
    /\ IF store = "map"
       THEN \* escrowRecords.set(jobId, record); usedDepositTxs.add(depositTxSig)
            /\ escrow' = [escrow EXCEPT ![j] = record]
            /\ usedDepositTxs' = usedDepositTxs \cup {q.tx}
            /\ depositOk' = depositOk \cup {<<j, q.tx>>}
            /\ Goto(q, [q EXCEPT !.pc = "dep_act_read"])
       ELSE IF escrow[j].status # "none"
       THEN \* INSERT INTO escrow_records: job_id is the primary key
            /\ UNCHANGED <<escrow, usedDepositTxs, depositOk>>
            /\ Finish(q, Reply("deposit", j, 400, "Verification failed"))
       ELSE /\ escrow' = [escrow EXCEPT ![j] = record]
            /\ depositOk' = depositOk \cup {<<j, q.tx>>}
            /\ UNCHANGED usedDepositTxs
            /\ Goto(q, [q EXCEPT !.pc = "dep_ins_used"])

DepositInsertUsed(q) ==
    /\ q.pc = "dep_ins_used"
    /\ UNCHANGED <<events, limiter, fees, store, platformWallet, jobs, escrow, out, payLanded, claimWins,
                   settled, depositOk>>
    /\ IF q.tx \in usedDepositTxs
       THEN \* INSERT INTO used_deposit_txs: tx_sig is the primary key
            /\ UNCHANGED usedDepositTxs
            /\ Finish(q, Reply("deposit", q.job, 400, "Verification failed"))
       ELSE /\ usedDepositTxs' = usedDepositTxs \cup {q.tx}
            /\ Goto(q, [q EXCEPT !.pc = "dep_act_read"])

DepositActivateRead(q) ==
    /\ q.pc = "dep_act_read"
    /\ UNCHANGED <<events, limiter, fees, store, platformWallet, jobs, escrow, usedDepositTxs, out, payLanded,
                   claimWins, settled, depositOk>>
    /\ IF jobs[q.job].status # PENDING_DEPOSIT
       THEN Finish(q, Reply("deposit", q.job, 400, "Job not pending deposit"))
       ELSE Goto(q, [q EXCEPT !.pc = "dep_act_cas"])

DepositActivate(q) ==
    LET j == q.job IN
    /\ q.pc = "dep_act_cas"
    /\ UNCHANGED <<limiter, fees, store, platformWallet, escrow, usedDepositTxs, out, payLanded,
                   claimWins, settled, depositOk>>
    /\ IF activateJobWhere(jobs[j])
       THEN /\ jobs' = [jobs EXCEPT ![j] = activateJobSet(jobs[j], q.tx)]
            /\ broadcast(j, "new")
            /\ Finish(q, Reply("deposit", j, 200, "Escrow verified"))
       ELSE /\ UNCHANGED <<jobs, events>>
            /\ Finish(q, Reply("deposit", j, 500, "Failed to activate job"))

----------------------------------------------------------------------------
(* POST /jobs/:id/claim: JobService.claim reads the job and throws on a    *)
(* job that is not OPEN or is the caller's own (the route answers 400);    *)
(* then claimJob's conditional UPDATE.                                     *)

(* Variant without the test "Cannot claim your own job". *)
ClaimStartReplyAnyWallet(j, workerWallet) ==
    IF jobs[j].status = ABSENT
    THEN Reply("claim", j, 400, "Job not found")
    ELSE IF jobs[j].status # OPEN
    THEN Reply("claim", j, 400, "Job cannot be claimed")
    ELSE Continue

ClaimStartReply(j, workerWallet) ==
    IF jobs[j].status = ABSENT
    THEN Reply("claim", j, 400, "Job not found")
    ELSE IF jobs[j].status # OPEN
    THEN Reply("claim", j, 400, "Job cannot be claimed")
    ELSE IF jobs[j].requesterWallet = workerWallet
    THEN Reply("claim", j, 400, "Cannot claim your own job")
    ELSE Continue

ClaimStart(j, workerWallet) ==
    /\ ClaimStartReply(j, workerWallet) = Continue
    /\ Spawn([Handler("claim_cas", j) EXCEPT !.wallet = workerWallet])
    /\ UNCHANGED <<events, limiter, fees, store, platformWallet, jobs, escrow, usedDepositTxs, out, payLanded,
                   claimWins, settled, depositOk>>

ClaimCas(q) ==
    LET j == q.job IN
    /\ q.pc = "claim_cas"
    /\ UNCHANGED <<limiter, fees, store, platformWallet, escrow, usedDepositTxs, out, payLanded,
                   settled, depositOk>>
    /\ IF claimJobWhere(jobs[j])
       THEN /\ jobs' = [jobs EXCEPT ![j] = claimJobSet(jobs[j], q.wallet)]
            /\ claimWins' = [claimWins EXCEPT ![j] = Append(@, q.wallet)]
            /\ broadcast(j, "claimed")
            /\ Finish(q, Reply("claim", j, 200, "Job claimed successfully"))
       ELSE /\ UNCHANGED <<jobs, claimWins, events>>
            /\ Finish(q, Reply("claim", j, 400, "Failed to claim job"))

----------------------------------------------------------------------------
(* POST /jobs/:id/complete: JobService.complete reads the job and throws   *)
(* unless it is CLAIMED by the caller; then completeJob's UPDATE.          *)

CompleteStartReply(j, workerWallet) ==
    IF jobs[j].status = ABSENT
    THEN Reply("complete", j, 400, "Job not found")
    ELSE IF jobs[j].status # CLAIMED
    THEN Reply("complete", j, 400, "Job cannot be completed")
    ELSE IF jobs[j].workerWallet # workerWallet
    THEN Reply("complete", j, 400, "Only the assigned worker can complete this job")
    ELSE Continue

CompleteStart(j, workerWallet, resultLen) ==
    /\ CompleteStartReply(j, workerWallet) = Continue
    /\ Spawn([Handler("complete_cas", j) EXCEPT !.wallet = workerWallet, !.n = resultLen])
    /\ UNCHANGED <<events, limiter, fees, store, platformWallet, jobs, escrow, usedDepositTxs, out, payLanded,
                   claimWins, settled, depositOk>>

CompleteCas(q) ==
    LET j == q.job IN
    /\ q.pc = "complete_cas"
    /\ UNCHANGED <<limiter, fees, store, platformWallet, escrow, usedDepositTxs, out, payLanded,
                   claimWins, settled, depositOk>>
    /\ IF completeJobWhere(jobs[j], q.wallet)
       THEN /\ jobs' = [jobs EXCEPT ![j] = completeJobSet(jobs[j], q.n)]
            /\ broadcast(j, "completed")
            /\ Finish(q, Reply("complete", j, 200, "Job completed"))
       ELSE /\ UNCHANGED <<jobs, events>>
            /\ Finish(q, Reply("complete", j, 400, "Failed to complete job"))

----------------------------------------------------------------------------
(* JobService.expire: expireJob's conditional UPDATE and nothing else.     *)

Expire(j) ==
    /\ expireJobWhere(jobs[j])
    /\ jobs' = [jobs EXCEPT ![j] = expireJobSet(jobs[j])]
    /\ resp' = NoResp
    /\ UNCHANGED <<events, limiter, fees, store, platformWallet, escrow, usedDepositTxs, out, payLanded, req,
                   claimWins, settled, depositOk>>

----------------------------------------------------------------------------
(* Escrow transactions.  An escrow transaction is built, signed and sent   *)
(* (sendRawTransaction); it is then pending until confirmTransaction       *)
(* returns or throws.  confirmTransaction returns for a transaction that   *)
(* was executed, whether its instructions succeeded ("landed") or failed   *)
(* ("failed": it credits nobody); the code does not read the returned      *)
(* error.  A transaction passed the node's preflight when it was sent, so  *)
(* it fails only if the escrow account was debited since: the model lets   *)
(* it fail when another escrow transaction of the same job landed while it *)
(* was pending (racing: the transactions pending when it was sent).        *)
(* When confirmTransaction throws, the transaction was either dropped or   *)
(* is executed without the server seeing it.                               *)

OutTx(kind, transfers, racing) ==
    [kind |-> kind, transfers |-> transfers, state |-> "pending", racing |-> racing]

CanSubmit(j) == Len(out[j]) < MaxEscTx

(* Variant in which confirmTransaction resolves for a transaction that    *)
(* never executed.                                                         *)
ExecutedOrDropped(j, n) == {"landed", "dropped"}

Executed(j, n) ==
    {"landed"} \cup (IF \E m \in 1..Len(out[j]) :
                            /\ out[j][m].state = "landed"
                            /\ m > n \/ m \in out[j][n].racing
                     THEN {"failed"} ELSE {})

SubmitEscrowTx(j, kind, transfers) ==
    out' = [out EXCEPT ![j] = Append(@, OutTx(kind, transfers,
                                  {m \in 1..Len(out[j]) : out[j][m].state = "pending"}))]

SetOutState(j, n, state) ==
    out' = [out EXCEPT ![j][n].state = state]

escrowTerminalWrite(record, status, workerWallet, txSig) ==
    [record EXCEPT !.status = status, !.workerWallet = workerWallet,
                   !.releaseTxSig = txSig, !.writes = @ + 1]

(* The write of releaseToWorker / refundToRequester after confirmation.    *)
(* map: the handler mutates the record object it fetched before the        *)
(* awaits; if the Map entry was replaced since, the write is lost.         *)
(* sql: UPDATE escrow_records ... WHERE job_id.                            *)
WriteRecord(j, g, status, workerWallet, txSig) ==
    IF store = "map" /\ escrow[j].gen # g
    THEN UNCHANGED escrow
    ELSE escrow' = [escrow EXCEPT ![j] = escrowTerminalWrite(@, status, workerWallet, txSig)]

----------------------------------------------------------------------------
(* POST /jobs/:id/cancel.                                                  *)
(*   CancelStart    the route reads the job; for an OPEN job with a held   *)
(*                  record refundToRequester builds and sends the refund   *)
(*   CancelConfirm  confirmTransaction, then the record is written         *)
(*   CancelRead     JobService.cancel reads the job again                  *)
(*   CancelCas      cancelJob's conditional UPDATE; the route answers 200  *)
(*                  whether or not a row was updated                       *)

CancelStartReply(j, requesterWallet) ==
    IF jobs[j].status = ABSENT
    THEN Reply("cancel", j, 404, "Job not found")
    ELSE IF jobs[j].requesterWallet # requesterWallet
    THEN Reply("cancel", j, 403, "Only requester can cancel")
    ELSE IF jobs[j].status \notin {PENDING_DEPOSIT, OPEN}
    THEN Reply("cancel", j, 400, "Job cannot be cancelled - already in progress")
    ELSE Continue

CancelRefunds(j) == jobs[j].status = OPEN /\ hasVerifiedEscrow(j)

CancelStart(j, requesterWallet) ==
    LET q == [Handler("cancel_read", j) EXCEPT !.wallet = requesterWallet,
                                               !.seen = jobs[j].status]
    IN
    /\ CancelStartReply(j, requesterWallet) = Continue
    /\ UNCHANGED <<events, limiter, fees, store, platformWallet, jobs, escrow, usedDepositTxs, payLanded,
                   claimWins, settled, depositOk>>
    /\ IF CancelRefunds(j)
       THEN /\ CanSubmit(j)
            /\ SubmitEscrowTx(j, "refund",
                              RefundTransfers(escrow[j].requesterWallet, escrow[j].amountAtomic))
            /\ Spawn([q EXCEPT !.pc = "cancel_confirm", !.n = Len(out[j]) + 1,
                               !.g = escrow[j].gen])
       ELSE /\ UNCHANGED out
            /\ Spawn(q)

CancelConfirm(q) ==
    LET j == q.job IN
    /\ q.pc = "cancel_confirm"
    /\ UNCHANGED <<events, limiter, fees, store, platformWallet, jobs, usedDepositTxs, payLanded, claimWins,
                   settled, depositOk>>
    /\ \/ \E state \in Executed(j, q.n) :
            /\ SetOutState(j, q.n, state)
            /\ WriteRecord(j, q.g, "refunded", escrow[j].workerWallet, EscTx(j, q.n))
            /\ Goto(q, [q EXCEPT !.pc = "cancel_read"])
       \/ \E state \in {"landed", "dropped"} :
            /\ SetOutState(j, q.n, state)
            /\ UNCHANGED escrow
            /\ Finish(q, Reply("cancel", j, 500, "Refund failed - contact support"))

CancelRead(q) ==
    LET j == q.job IN
    /\ q.pc = "cancel_read"
    /\ UNCHANGED <<events, limiter, fees, store, platformWallet, jobs, escrow, usedDepositTxs, out, payLanded,
                   claimWins, settled, depositOk>>
    /\ IF jobs[j].status \notin {PENDING_DEPOSIT, OPEN}
       THEN Finish(q, Reply("cancel", j, 400, "Job cannot be cancelled"))
       ELSE Goto(q, [q EXCEPT !.pc = "cancel_cas"])

CancelCas(q) ==
    LET j == q.job
        message == IF q.seen = OPEN THEN "Job cancelled, escrow refunded" ELSE "Job cancelled"
    IN
    /\ q.pc = "cancel_cas"
    /\ UNCHANGED <<events, limiter, fees, store, platformWallet, escrow, usedDepositTxs, out, payLanded,
                   claimWins, settled, depositOk>>
    /\ IF cancelJobWhere(jobs[j], q.wallet)
       THEN /\ jobs' = [jobs EXCEPT ![j] = cancelJobSet(jobs[j])]
            /\ Finish(q, Reply("cancel", j, 200, message))
       ELSE /\ UNCHANGED jobs
            /\ Finish(q, [Reply("cancel", j, 200, message) EXCEPT !.tx = <<"job", "null">>])

----------------------------------------------------------------------------
(* GET /results/:jobId, escrow route.                                      *)
(*   ResultStart    the route reads the job and the record; for a          *)
(*                  COMPLETED job with a held record releaseToWorker       *)
(*                  builds and sends the release                           *)
(*   ResultConfirm  confirmTransaction, then the record is written         *)
(*   ResultMark     markEscrowReleased, then the response with the result; *)
(*                  or the UPDATE fails and the route answers 500          *)

ResultStartReply(j) ==
    IF jobs[j].status = ABSENT
    THEN Reply("result", j, 404, "Job not found")
    ELSE IF jobs[j].status = PENDING_DEPOSIT
    THEN Reply("result", j, 400, "Job pending escrow deposit")
    ELSE IF jobs[j].status = OPEN
    THEN Reply("result", j, 400, "Job not yet claimed")
    ELSE IF jobs[j].status = CLAIMED
    THEN Reply("result", j, 400, "Job not yet completed")
    ELSE IF jobs[j].status \in {CANCELLED, EXPIRED}
    THEN Reply("result", j, 400, "Job was cancelled or expired")
    ELSE IF jobs[j].status = PAID
    THEN ResultBody("result", j, 200, "released", jobs[j].resultLen, jobs[j].paymentTxSig)
    ELSE IF ~hasVerifiedEscrow(j)
    THEN Reply("result", j, 500, "Escrow record not found")
    ELSE Continue

ResultStart(j) ==
    /\ ResultStartReply(j) = Continue
    /\ CanSubmit(j)
    /\ SubmitEscrowTx(j, "release",
                      ReleaseTransfers(jobs[j].workerWallet, escrow[j].amountAtomic,
                                       platformWallet))
    /\ Spawn([Handler("result_confirm", j) EXCEPT !.wallet = jobs[j].workerWallet,
                                                  !.n = Len(out[j]) + 1,
                                                  !.g = escrow[j].gen])
    /\ UNCHANGED <<events, limiter, fees, store, platformWallet, jobs, escrow, usedDepositTxs, payLanded,
                   claimWins, settled, depositOk>>

ResultConfirm(q) ==
    LET j == q.job IN
    /\ q.pc = "result_confirm"
    /\ UNCHANGED <<events, limiter, fees, store, platformWallet, jobs, usedDepositTxs, payLanded, claimWins,
                   depositOk>>
    /\ \/ \E state \in Executed(j, q.n) :
            /\ SetOutState(j, q.n, state)
            /\ WriteRecord(j, q.g, "released", q.wallet, EscTx(j, q.n))
            /\ settled' = [settled EXCEPT ![j] = @ \cup {<<"escrow", EscTx(j, q.n)>>}]
            /\ Goto(q, [q EXCEPT !.pc = "result_mark"])
       \/ \E state \in {"landed", "dropped"} :
            /\ SetOutState(j, q.n, state)
            /\ UNCHANGED <<escrow, settled>>
            /\ Finish(q, Reply("result", j, 500, "Payment release failed"))

ResultMark(q) ==
    LET j == q.job IN
    /\ q.pc = "result_mark"
    /\ UNCHANGED <<limiter, fees, store, platformWallet, escrow, usedDepositTxs, out, payLanded,
                   claimWins, settled, depositOk>>
    /\ \/ /\ jobs' = [jobs EXCEPT ![j] = IF markEscrowReleasedWhere(@)
                                         THEN markEscrowReleasedSet(@, EscTx(j, q.n))
                                         ELSE @]
          /\ broadcast(j, "paid")
          /\ Finish(q, ResultBody("result", j, 200, "Escrow released to worker",
                                  jobs[j].resultLen, EscTx(j, q.n)))
       \/ \* the UPDATE is rejected by the database: the route's catch answers 500
          /\ UNCHANGED <<jobs, events>>
          /\ Finish(q, Reply("result", j, 500, "Internal server error"))

----------------------------------------------------------------------------
(* GET /results/:jobId, x402 paywall route.                                *)
(*   PaywallStart    the middleware reads the job; with an X-Payment       *)
(*                   header on a COMPLETED job verifyAndSubmitPayment      *)
(*                   sends the client's transaction                        *)
(*   PayLands        the chain executes the transaction                    *)
(*   PaywallConfirm  confirmTransaction, verifyUsdcTransfer, markPaid and  *)
(*                   the results handler                                   *)
(* header is the transaction of the X-Payment header, NoTx without one.    *)
(* The node refuses a transaction it has already processed.                *)

(* generatePaymentRequired: the one accepts entry of the challenge. *)
generatePaymentRequired(workerWallet, totalAtomic) ==
    [payTo |-> workerWallet, maxAmountRequired |-> totalAtomic]

minAcceptable(totalAtomic, hasPlatformWallet) ==
    IF hasPlatformWallet THEN workerAmount(totalAtomic) ELSE totalAtomic

PaywallStartReply(j, header) ==
    IF jobs[j].status = ABSENT
    THEN Reply("paywall", j, 404, "Job not found")
    ELSE IF jobs[j].status \notin {COMPLETED, PAID}
    THEN Reply("paywall", j, 400, "Job result not available")
    ELSE IF jobs[j].status = PAID
    THEN ResultBody("paywall", j, 200, "already_paid", jobs[j].resultLen,
                    jobs[j].paymentTxSig)
    ELSE IF header = NoTx
    THEN [Reply("paywall", j, 402, "Payment required")
            EXCEPT !.challenge = generatePaymentRequired(jobs[j].workerWallet,
                                                         jobs[j].bountyAtomic)]
    ELSE IF header \in payLanded
    THEN Reply("paywall", j, 500, "Payment processing failed")
    ELSE Continue

PaywallStart(j, header) ==
    /\ PaywallStartReply(j, header) = Continue
    /\ Spawn([Handler("paywall_confirm", j) EXCEPT !.tx = header,
                                                   !.wallet = jobs[j].workerWallet,
                                                   !.n = jobs[j].bountyAtomic])
    /\ UNCHANGED <<events, limiter, fees, store, platformWallet, jobs, escrow, usedDepositTxs, out, payLanded,
                   claimWins, settled, depositOk>>

(* The chain executes a client transaction that was sent; the server sees  *)
(* it at its next poll (PaywallConfirm).                                   *)
PayLands(q) ==
    /\ q.pc = "paywall_confirm"
    /\ q.tx \notin payLanded
    /\ payLanded' = payLanded \cup {q.tx}
    /\ resp' = NoResp
    /\ UNCHANGED <<events, limiter, fees, store, platformWallet, jobs, escrow, usedDepositTxs, out, req,
                   claimWins, settled, depositOk>>

PaywallConfirm(q) ==
    LET j == q.job IN
    /\ q.pc = "paywall_confirm"
    /\ UNCHANGED <<limiter, fees, store, platformWallet, escrow, usedDepositTxs, out, claimWins,
                   depositOk>>
    /\ \/ /\ q.tx \in payLanded
          /\ UNCHANGED payLanded
          /\ IF verifyUsdcTransfer(Chain, q.tx, "", q.wallet,
                                   minAcceptable(q.n, platformWallet))
             THEN /\ jobs' = [jobs EXCEPT ![j] = IF markJobPaidWhere(@)
                                                 THEN markJobPaidSet(@, q.tx) ELSE @]
                  /\ settled' = [settled EXCEPT ![j] = @ \cup {<<"paywall", q.tx>>}]
                  /\ broadcast(j, "paid")
                  /\ Finish(q, ResultBody("paywall", j, 200, "verified",
                                          jobs[j].resultLen, q.tx))
             ELSE /\ UNCHANGED <<jobs, settled, events>>
                  /\ Finish(q, Reply("paywall", j, 402, "Payment verification failed"))
       \/ \E lands \in BOOLEAN :
            /\ payLanded' = IF lands THEN payLanded \cup {q.tx} ELSE payLanded
            /\ UNCHANGED <<jobs, settled, events>>
            /\ Finish(q, Reply("paywall", j, 500, "Payment processing failed"))

----------------------------------------------------------------------------
(* A transaction the node refuses at sendRawTransaction: the handler       *)
(* answers 500 and nothing was written.                                    *)

SendRejected(j, route) ==
    /\ \/ /\ route = "cancel"
          /\ CancelStartReply(j, jobs[j].requesterWallet) = Continue
          /\ CancelRefunds(j)
          /\ resp' = Reply("cancel", j, 500, "Refund failed - contact support")
       \/ /\ route = "result"
          /\ ResultStartReply(j) = Continue
          /\ resp' = Reply("result", j, 500, "Payment release failed")
       \/ /\ route = "paywall"
          /\ \E header \in PaySigs : PaywallStartReply(j, header) = Continue
          /\ resp' = Reply("paywall", j, 500, "Payment processing failed")
    /\ UNCHANGED <<events, limiter, fees, store, platformWallet, jobs, escrow, usedDepositTxs, out, payLanded,
                   req, claimWins, settled, depositOk>>

----------------------------------------------------------------------------
(* GET /jobs/:id/verify and POST /jobs/:id/verify-hash: one read each.     *)
(* verify puts the first PreviewLen characters of the result in the body.  *)

VerifyReply(j) ==
    IF jobs[j].status = ABSENT
    THEN Reply("verify", j, 404, "Job not found")
    ELSE IF jobs[j].status \notin {COMPLETED, PAID}
    THEN Reply("verify", j, 400, "Job not completed")
    ELSE ResultBody("verify", j, 200, "sha256", Min(jobs[j].resultLen, PreviewLen), NoTx)

VerifyHashReply(j) ==
    IF jobs[j].status = ABSENT
    THEN Reply("verify-hash", j, 404, "Job not found")
    ELSE IF ~hasResult(jobs[j])
    THEN Reply("verify-hash", j, 404, "Result not found")
    ELSE Reply("verify-hash", j, 200, "hashMatches")

VerifyJob(j) ==
    /\ jobs[j].status # ABSENT
    /\ resp' = VerifyReply(j)
    /\ UNCHANGED <<events, limiter, fees, store, platformWallet, jobs, escrow, usedDepositTxs, out, payLanded,
                   req, claimWins, settled, depositOk>>

VerifyHash(j) ==
    /\ jobs[j].status # ABSENT
    /\ resp' = VerifyHashReply(j)
    /\ UNCHANGED <<events, limiter, fees, store, platformWallet, jobs, escrow, usedDepositTxs, out, payLanded,
                   req, claimWins, settled, depositOk>>

----------------------------------------------------------------------------
(* Specifications.  Spec is the whole lifecycle of FullJobs jobs;          *)
(* SpecLedger is posting and deposit of MaxJobs jobs that share the escrow  *)
(* ledger, with no platform wallet configured.                             *)

Posted(limit) == \E j \in 1..limit : \E bountyUsdc \in Bounties : Create(j, bountyUsdc)

Funding(sigs) ==
    \/ \E j \in Jobs : \E sig \in sigs : DepositStart(j, sig)
    \/ \E q \in Running : DepositCommit(q)
    \/ \E q \in Running : DepositInsertUsed(q)
    \/ \E q \in Running : DepositActivateRead(q)
    \/ \E q \in Running : DepositActivate(q)

Cancelling ==
    \/ \E j \in Jobs : \E w \in {Requester, "B"} : CancelStart(j, w)
    \/ \E q \in Running : CancelConfirm(q)
    \/ \E q \in Running : CancelRead(q)
    \/ \E q \in Running : CancelCas(q)
    \/ \E j \in Jobs : Expire(j)

Claiming ==
    \/ \E j \in Jobs : \E w \in Workers \cup {Requester} : ClaimStart(j, w)
    \/ \E q \in Running : ClaimCas(q)

Working ==
    \/ \E j \in Jobs : \E w \in Workers : \E len \in ResultLens : CompleteStart(j, w, len)
    \/ \E q \in Running : CompleteCas(q)

Settling ==
    \/ \E j \in Jobs : ResultStart(j)
    \/ \E q \in Running : ResultConfirm(q)
    \/ \E q \in Running : ResultMark(q)
    \/ \E j \in Jobs : \E header \in PaySigs \cup {NoTx} : PaywallStart(j, header)
    \/ \E q \in Running : PayLands(q)
    \/ \E q \in Running : PaywallConfirm(q)
    \/ \E j \in Jobs : \E route \in {"cancel", "result", "paywall"} : SendRejected(j, route)
    \/ \E j \in Jobs : VerifyJob(j)
    \/ \E j \in Jobs : VerifyHash(j)

Next ==
    Posted(FullJobs) \/ Funding(FullSigs) \/ Cancelling \/ Claiming \/ Working \/ Settling

NextLedger == Posted(MaxJobs) \/ Funding(DepositSigs)

InitLedger == Init /\ ~platformWallet

Spec == Init /\ [][Next]_vars

SpecLedger == InitLedger /\ [][NextLedger]_vars

----------------------------------------------------------------------------
(* calculateFees on its own: an amount and a configured fee are chosen,    *)
(* then the function is called once.                                       *)

(* bigint in the code; the amounts here keep amount * fee within the      *)
(* checker's integers.                                                     *)
Amounts == {0, 1, 19, 20, 39, 40, 199, 200, 9999, 10000, 10001, 100000, 200000}
BasisPoints == {0, 1, 250, 333, 500, 5000, 9999, 10000}

InitFees ==
    /\ Started
    /\ store = "sql" /\ ~platformWallet
    /\ \E totalAtomic \in Amounts : \E basisPoints \in BasisPoints :
          fees = [NoFees EXCEPT !.totalAtomic = totalAtomic, !.basisPoints = basisPoints]

CalculateFees ==
    /\ ~fees.called
    /\ fees' = [fees EXCEPT !.called = TRUE,
                            !.workerAmount =
                                calculateFees(fees.totalAtomic, fees.basisPoints).workerAmount,
                            !.platformFee =
                                calculateFees(fees.totalAtomic, fees.basisPoints).platformFee]
    /\ UNCHANGED <<events, limiter, store, platformWallet, jobs, escrow, usedDepositTxs, out,
                   payLanded, req, resp, claimWins, settled, depositOk>>

SpecFees == InitFees /\ [][CalculateFees]_vars

----------------------------------------------------------------------------
(* POST /jobs on its own: request bodies around the edges of              *)
(* CreateJobSchema's bountyUsdc (positive, at most 1000) and around the    *)
(* rounding points of the conversion to atomic units.                      *)

BountyInputs ==
    {Usdc(-1, 0), Usdc(0, 0), Usdc(0, 1), Usdc(0, 4), Usdc(0, 6), Usdc(0, 10),
     Usdc(0, 14), Usdc(0, 16), Usdc(0, 400), Usdc(1, 0), Usdc(999, 9999999),
     Usdc(1000, 0), Usdc(1000, 1), Usdc(1001, 0)}

NextPost ==
    \/ \E j \in Jobs : \E bountyUsdc \in BountyInputs : Create(j, bountyUsdc)
    \/ \E bountyUsdc \in BountyInputs : CreateRejected(bountyUsdc)

SpecPost == InitLedger /\ [][NextPost]_vars

----------------------------------------------------------------------------
(* The rate limiting middleware on its own (middleware/security            *)
(* rateLimit): it runs before every route and touches only its own store.  *)
(* A request it lets through (next()) is one of the requests above.        *)

Others == <<events, fees, store, platformWallet, jobs, escrow, usedDepositTxs, out, payLanded,
            req, resp, claimWins, settled, depositOk>>

(* The record the middleware holds for ip after counting one request at    *)
(* time now.                                                               *)
rateLimitRecord(record, now) ==
    IF ~record.present \/ now > record.resetAt
    THEN [present |-> TRUE, count |-> 1, resetAt |-> now + WindowTicks]
    ELSE [record EXCEPT !.count = @ + 1]

rateLimit(ip) ==
    LET now == limiter.now
        record == rateLimitRecord(limiter.rateLimitStore[ip], now)
        refused == record.count > MaxRequests
    IN  /\ record.count <= MaxRequests + MaxOver
        /\ limiter' = [limiter EXCEPT
                          !.rateLimitStore[ip] = record,
                          !.reply = IF refused
                                    THEN [ip |-> ip, code |-> 429,
                                          retryAfter |-> record.resetAt - now]
                                    ELSE [ip |-> ip, code |-> 0, retryAfter |-> 0],
                          !.admitted[ip][now] = IF refused THEN @ ELSE @ + 1]
        /\ UNCHANGED Others

(* Date.now() moves on. *)
Tick ==
    /\ limiter.now < MaxNow
    /\ limiter' = [limiter EXCEPT !.now = @ + 1]
    /\ UNCHANGED Others

(* The setInterval callback: drops the records whose window is over. *)
rateLimitCleanup ==
    /\ \E ip \in IPs : limiter.rateLimitStore[ip].present
                        /\ limiter.now > limiter.rateLimitStore[ip].resetAt
    /\ limiter' = [limiter EXCEPT
                      !.rateLimitStore =
                          [ip \in IPs |->
                              IF limiter.now > limiter.rateLimitStore[ip].resetAt
                              THEN NoRate ELSE limiter.rateLimitStore[ip]]]
    /\ UNCHANGED Others

NextRate ==
    \/ \E ip \in IPs : rateLimit(ip)
    \/ Tick
    \/ rateLimitCleanup

InitRate == InitLedger /\ store = "sql"

SpecRate == InitRate /\ [][NextRate]_vars

----------------------------------------------------------------------------
(* Properties *)

(* C1: of the claim requests racing for an OPEN job exactly one succeeds:   *)
(* a claim whose UPDATE finds the job OPEN is answered 200 and the job      *)
(* becomes CLAIMED with that caller as workerWallet; a claim whose UPDATE   *)
(* finds any other status is answered 400 and leaves the job as it was; no  *)
(* job ever has two successful claims, and the winner stays workerWallet.   *)
C1_OneClaimWins ==
    [][\A j \in Jobs :
          /\ Len(claimWins'[j]) <= 1
          /\ Len(claimWins'[j]) = 1 => jobs'[j].workerWallet = claimWins'[j][1]
          /\ (resp'.op = "claim" /\ resp'.job = j) =>
                IF jobs[j].status = OPEN
                THEN /\ resp'.code = 200
                     /\ jobs'[j].status = CLAIMED
                     /\ Len(claimWins'[j]) = Len(claimWins[j]) + 1
                ELSE /\ resp'.code = 400
                     /\ jobs'[j] = jobs[j]
                     /\ claimWins'[j] = claimWins[j]]_vars

(* Two claims raced: one won, the other has just been refused. *)
C1_LoserRefused ==
    /\ resp.op = "claim"
    /\ resp.code = 400
    /\ resp.msg = "Failed to claim job"
    /\ jobs[resp.job].status = CLAIMED
    /\ Len(claimWins[resp.job]) = 1

(* C2: every PAID job got its paymentTxSig in one write, and no job has    *)
(* two accepted settlements (two releases, or a paywall payment and an     *)
(* escrow release).                                                        *)
C2_SingleSettlement ==
    \A j \in Jobs :
        /\ jobs[j].status = PAID => jobs[j].paidWrites = 1
        /\ Cardinality(settled[j]) <= 1

(* C3: a job's status changes only along the edges of the lifecycle;       *)
(* PAID, CANCELLED and EXPIRED have no outgoing edge.                      *)
C3_LifecycleEdges ==
    [][\A j \in Jobs :
          \/ jobs'[j].status = jobs[j].status
          \/ <<jobs[j].status, jobs'[j].status>> \in
                {<<ABSENT, PENDING_DEPOSIT>>,
                 <<PENDING_DEPOSIT, OPEN>>, <<PENDING_DEPOSIT, CANCELLED>>,
                 <<OPEN, CLAIMED>>, <<OPEN, CANCELLED>>, <<OPEN, EXPIRED>>,
                 <<CLAIMED, COMPLETED>>, <<COMPLETED, PAID>>}]_vars

(* A job went all the way to PAID and was then written by a second         *)
(* settlement, which left it PAID.                                         *)
C3_PaidStaysPaid ==
    \E j \in Jobs : jobs[j].status = PAID /\ jobs[j].paidWrites = 2

(* C4: for one job's escrow record at most one outgoing escrow             *)
(* transaction (release or refund) is ever built and submitted.            *)
C4_OneEscrowTx ==
    \A j \in Jobs : Len(out[j]) <= 1

(* C5: a deposit transaction activates at most one job and is carried by   *)
(* at most one escrow record; a job still PENDING_DEPOSIT has no record    *)
(* once its deposit request was refused.                                   *)
C5_DepositOnce ==
    /\ \A sig \in DepositSigs :
          /\ Cardinality({j \in Jobs : jobs[j].depositTxSig = sig}) <= 1
          /\ Cardinality({j \in Jobs : escrow[j].depositTxSig = sig}) <= 1
    /\ (resp.op = "deposit" /\ resp.code # 200 /\ req = EmptyBag) =>
          (jobs[resp.job].status = PENDING_DEPOSIT => escrow[resp.job].status = "none")

(* C6: no chain transaction is used twice: no two jobs have the same       *)
(* paymentTxSig, no transaction was consumed as a deposit for two jobs,    *)
(* and no consumed deposit is a paymentTxSig.                              *)
C6_TxUsedOnce ==
    /\ \A i, j \in Jobs :
          (i # j /\ jobs[i].paymentTxSig # NoTx) => jobs[i].paymentTxSig # jobs[j].paymentTxSig
    /\ \A a, b \in depositOk : a[2] = b[2] => a = b
    /\ \A j \in Jobs : jobs[j].paymentTxSig \notin usedDepositTxs

(* C7: whenever a job's escrow record is held, the job is OPEN, CLAIMED or *)
(* COMPLETED.                                                              *)
C7_HeldImpliesLive ==
    \A j \in Jobs :
        escrow[j].status = "held" => jobs[j].status \in {OPEN, CLAIMED, COMPLETED}

(* C8: the paymentTxSig of a PAID job is a confirmed transaction that      *)
(* credited the job's workerWallet with at least workerAmount.             *)
C8_PaidCreditedWorker ==
    \A j \in Jobs :
        jobs[j].status = PAID =>
            verifyUsdcTransfer(Chain, jobs[j].paymentTxSig, "", jobs[j].workerWallet,
                               workerAmount(jobs[j].bountyAtomic))

(* C9: a response carries characters of the result text only for a job     *)
(* that is PAID when the response is sent (paid before, or paid by this     *)
(* request); in particular verify and verify-hash carry none for a         *)
(* COMPLETED job.                                                          *)
C9_ResultGated ==
    resp.chars > 0 => jobs[resp.job].status = PAID

(* C10: an escrow record's status moves only from held to released or from *)
(* held to refunded, both final, and its release fields are written at     *)
(* most once.                                                              *)
C10_EscrowTerminal ==
    [][\A j \in Jobs :
          /\ \/ escrow'[j].status = escrow[j].status
             \/ <<escrow[j].status, escrow'[j].status>> \in
                   {<<"none", "held">>, <<"held", "released">>, <<"held", "refunded">>}
          /\ escrow'[j].writes <= 1
          /\ escrow[j].writes = 1 => escrow'[j].releaseTxSig = escrow[j].releaseTxSig]_vars


(* C11: claimedAt, completedAt, paidAt and paymentTxSig are write-once:    *)
(* once one of them has been written on a job, no later step writes it     *)
(* again or changes its value.                                             *)
C11_WriteOnce ==
    [][\A j \in Jobs :
          /\ jobs[j].claimedWrites >= 1 => jobs'[j].claimedWrites = jobs[j].claimedWrites
          /\ jobs[j].completedWrites >= 1
                => jobs'[j].completedWrites = jobs[j].completedWrites
          /\ jobs[j].paidWrites >= 1
                => /\ jobs'[j].paidWrites = jobs[j].paidWrites
                   /\ jobs'[j].paymentTxSig = jobs[j].paymentTxSig]_vars

(* C12: markPaid on a job that is already PAID leaves the job exactly as   *)
(* it was, and the paywall that called it answers 200 with the result.     *)
C12_MarkPaidIdempotent ==
    [][(resp'.op = "paywall" /\ resp'.msg = "verified" /\ jobs[resp'.job].status = PAID)
          => (jobs' = jobs /\ resp'.code = 200
                /\ resp'.chars = jobs[resp'.job].resultLen)]_vars

(* C12 case: a verified payment tx2 was answered on a job already PAID     *)
(* with another settlement id tx1.                                         *)
C12_SecondMarkPaid ==
    /\ resp.op = "paywall" /\ resp.msg = "verified" /\ resp.code = 200
    /\ jobs[resp.job].status = PAID
    /\ jobs[resp.job].paymentTxSig # resp.tx

(* C13: while a GET /results request carrying a signed transaction is in   *)
(* flight for a COMPLETED job, a further request carrying the same         *)
(* transaction is not refused: it proceeds to the same verification, and a *)
(* verified request answers 200 with that transaction as txSig.            *)
C13_DuplicatesSucceed ==
    /\ \A q \in Running :
          (q.pc = "paywall_confirm" /\ jobs[q.job].status = COMPLETED)
             => PaywallStartReply(q.job, q.tx) = Continue
    /\ (resp.op = "paywall" /\ resp.msg = "verified")
          => (resp.code = 200 /\ resp.tx \in payLanded)

(* C14: when the escrow results route answers with the result after a      *)
(* confirmed release, the escrow record is released with the job's         *)
(* workerWallet and the release transaction as releaseTxSig, the job is    *)
(* PAID with paymentTxSig equal to that releaseTxSig, and the response     *)
(* carries the whole result.                                               *)
C14_ReleaseEndState ==
    (resp.op = "result" /\ resp.code = 200 /\ resp.msg = "Escrow released to worker")
       => LET j == resp.job IN
          /\ escrow[j].status = "released"
          /\ escrow[j].workerWallet = jobs[j].workerWallet
          /\ escrow[j].releaseTxSig = resp.tx
          /\ jobs[j].status = PAID
          /\ jobs[j].paymentTxSig = escrow[j].releaseTxSig
          /\ resp.chars = jobs[j].resultLen

C16_FetchReconciles ==
    \A j \in Jobs :
       (/\ jobs[j].status = COMPLETED
        /\ escrow[j].status = "released"
        /\ \A q \in Running : q.job # j)
          => (ResultStartReply(j) = Continue \/ ResultStartReply(j).code = 200)

(* C17: GET /results/:jobId, on either route, answers a job in             *)
(* PENDING_DEPOSIT, OPEN or CLAIMED with a state error (400, never 402), a *)
(* CANCELLED or EXPIRED job with an error that is not a payment request    *)
(* and carries no result, a PAID job with the stored result and no         *)
(* challenge, and a COMPLETED job without a held escrow and without        *)
(* X-Payment header with 402 and the challenge for the job's worker and    *)
(* bounty.  These replies are computed from the first read of the job and  *)
(* write nothing.                                                          *)
C17_ResultStateReplies ==
    \A j \in Jobs :
       LET escrowRoute == ResultStartReply(j)
           paywall == PaywallStartReply(j, NoTx)
           challenge == generatePaymentRequired(jobs[j].workerWallet, jobs[j].bountyAtomic)
       IN
       /\ jobs[j].status \in {PENDING_DEPOSIT, OPEN, CLAIMED}
             => (escrowRoute.code = 400 /\ paywall.code = 400)
       /\ jobs[j].status \in {CANCELLED, EXPIRED}
             => /\ escrowRoute.code >= 400 /\ escrowRoute.code # 402 /\ escrowRoute.chars = 0
                /\ paywall.code >= 400 /\ paywall.code # 402 /\ paywall.chars = 0
       /\ jobs[j].status = PAID
             => /\ escrowRoute.code = 200 /\ escrowRoute.chars = jobs[j].resultLen
                /\ escrowRoute.challenge = NoChallenge
                /\ paywall.code = 200 /\ paywall.chars = jobs[j].resultLen
                /\ paywall.challenge = NoChallenge
       /\ (jobs[j].status = COMPLETED /\ ~hasVerifiedEscrow(j))
             => /\ escrowRoute.code = 402 /\ escrowRoute.challenge = challenge
                /\ paywall.code = 402 /\ paywall.challenge = challenge

(* C18: when the transaction of an X-Payment header fails verification,    *)
(* the response is 402 and carries the challenge of the initial 402 for    *)
(* the job (payTo = workerWallet, maxAmountRequired = bountyAtomic), and   *)
(* the request leaves the job as it was.                                   *)
C18_FailedVerificationChallenge ==
    [][(resp'.op = "paywall" /\ resp'.msg = "Payment verification failed")
          => LET j == resp'.job IN
             /\ resp'.code = 402
             /\ resp'.challenge = generatePaymentRequired(jobs[j].workerWallet,
                                                          jobs[j].bountyAtomic)
             /\ jobs' = jobs]_vars

(* C19: a cancel of an OPEN job by its requester that reports success with *)
(* the escrow refunded leaves the escrow record refunded, by one executed  *)
(* transfer of the full amountAtomic to the record's requesterWallet, and  *)
(* the job CANCELLED.                                                      *)
C19_CancelRefundsAndCancels ==
    (resp.op = "cancel" /\ resp.code = 200 /\ resp.msg = "Job cancelled, escrow refunded")
       => LET j == resp.job IN
          /\ jobs[j].status = CANCELLED
          /\ escrow[j].status = "refunded"
          /\ \E n \in 1..Len(out[j]) :
                /\ out[j][n].kind = "refund"
                /\ out[j][n].state = "landed"
                /\ out[j][n].transfers = RefundTransfers(escrow[j].requesterWallet,
                                                         escrow[j].amountAtomic)
                /\ escrow[j].releaseTxSig = EscTx(j, n)

(* C20: a cancel by a wallet other than the job's requesterWallet, and a   *)
(* complete of a CLAIMED job by a wallet other than its workerWallet, are  *)
(* each answered 403; the answer comes from the first read of the job and  *)
(* writes nothing.                                                         *)
C20_WrongWalletForbidden ==
    \A j \in Jobs : \A wallet \in Workers \cup {Requester} :
       /\ (jobs[j].status # ABSENT /\ wallet # jobs[j].requesterWallet)
             => CancelStartReply(j, wallet).code = 403
       /\ (jobs[j].status = CLAIMED /\ wallet # jobs[j].workerWallet)
             => CompleteStartReply(j, wallet).code = 403

(* C21: an operation that meets a job outside its source status is         *)
(* answered with a state error (400) and leaves the job unchanged, both    *)
(* when the first read of the job shows the wrong status and when the      *)
(* conditional UPDATE of activate, claim, complete or cancel matches no    *)
(* row; a job that is not OPEN is not moved to EXPIRED.                    *)
C21_WrongStatusRejected ==
    [][/\ \A j \in Jobs : jobs[j].status # ABSENT =>
             /\ jobs[j].status # PENDING_DEPOSIT
                   => \A sig \in DepositSigs : DepositStartReply(j, sig).code = 400
             /\ jobs[j].status # OPEN
                   => \A wallet \in Workers : ClaimStartReply(j, wallet).code = 400
             /\ jobs[j].status # CLAIMED
                   => \A wallet \in Workers : CompleteStartReply(j, wallet).code = 400
             /\ jobs[j].status \notin {PENDING_DEPOSIT, OPEN}
                   => CancelStartReply(j, jobs[j].requesterWallet).code = 400
             /\ jobs[j].status \notin {OPEN, EXPIRED} => jobs'[j].status # EXPIRED
       /\ \A q \in Running :
             (/\ req' = req (-) SetToBag({q})
              /\ \/ q.pc = "dep_act_cas" /\ jobs[q.job].status # PENDING_DEPOSIT
                 \/ q.pc = "claim_cas" /\ jobs[q.job].status # OPEN
                 \/ q.pc = "complete_cas" /\ jobs[q.job].status # CLAIMED
                 \/ q.pc = "cancel_cas" /\ jobs[q.job].status \notin {PENDING_DEPOSIT, OPEN})
                => (resp'.code = 400 /\ jobs' = jobs)]_vars

(* C22: every job that is OPEN, CLAIMED, COMPLETED or PAID has an escrow   *)
(* record created by a verified deposit, whose depositTxSig is the job's   *)
(* depositTxSig and whose amountAtomic is the job's bountyAtomic.          *)
C22_ActiveHasVerifiedDeposit ==
    \A j \in Jobs :
       jobs[j].status \in {OPEN, CLAIMED, COMPLETED, PAID}
          => /\ escrow[j].status # "none"
             /\ <<j, jobs[j].depositTxSig>> \in depositOk
             /\ escrow[j].depositTxSig = jobs[j].depositTxSig
             /\ escrow[j].amountAtomic = jobs[j].bountyAtomic

(* C23: in every state a transaction id is in the Used-Deposit Set exactly *)
(* when some escrow record has it as depositTxSig.                         *)
C23_UsedIffRecorded ==
    \A sig \in DepositSigs :
       sig \in usedDepositTxs <=> \E j \in Jobs : escrow[j].depositTxSig = sig

(* C24: each job consumes at most one deposit: at most one transaction id  *)
(* is recorded as a verified deposit of a job and enters the Used-Deposit  *)
(* Set for it, and a job's escrow record, once created, keeps its          *)
(* depositTxSig and is not created again.                                  *)
C24_OneDepositPerJob ==
    [][\A j \in Jobs :
          /\ \A a, b \in depositOk' : (a[1] = j /\ b[1] = j) => a = b
          /\ escrow[j].status # "none"
                => /\ escrow'[j].depositTxSig = escrow[j].depositTxSig
                   /\ escrow'[j].gen = escrow[j].gen]_vars

(* C25: a job is moved to EXPIRED only from OPEN, and the step that        *)
(* expires a job whose escrow is held also sends the refund of that        *)
(* escrow to the requester.                                                *)
C25_ExpireRefunds ==
    [][\A j \in Jobs :
          (jobs[j].status # EXPIRED /\ jobs'[j].status = EXPIRED)
             => /\ jobs[j].status = OPEN
                /\ escrow[j].status = "held"
                      => /\ Len(out'[j]) = Len(out[j]) + 1
                         /\ out'[j][Len(out'[j])].kind = "refund"
                         /\ out'[j][Len(out'[j])].transfers =
                               RefundTransfers(escrow[j].requesterWallet,
                                               escrow[j].amountAtomic)]_vars

----------------------------------------------------------------------------
(* The server after startup: a handler that was started runs to its end    *)
(* (the event loop resumes every pending await), clients may or may not    *)
(* send further requests, and main registers no timer that calls           *)
(* JobService.expire, so nothing obliges Expire to happen.                 *)

HandlerStep ==
    \E q \in Running :
       \/ DepositCommit(q) \/ DepositInsertUsed(q) \/ DepositActivateRead(q)
       \/ DepositActivate(q) \/ ClaimCas(q)
       \/ CancelConfirm(q) \/ CancelRead(q) \/ CancelCas(q)

NextSweep == Posted(FullJobs) \/ Funding(FullSigs) \/ Cancelling \/ Claiming

SpecSweep == Init /\ [][NextSweep]_vars /\ WF_vars(HandlerStep)

(* C26: a job that is OPEN does not stay OPEN forever: if it is neither    *)
(* claimed nor cancelled it is eventually moved to EXPIRED; and an EXPIRED *)
(* job is not changed by a further expiry.                                 *)
C26_OpenEventuallyExpires ==
    /\ \A j \in Jobs : (jobs[j].status = OPEN) ~> (jobs[j].status # OPEN)
    /\ [][\A j \in Jobs : jobs[j].status = EXPIRED => jobs'[j] = jobs[j]]_vars

(* C27: for every amount and every fee of b basis points, 0 <= b <= 10000, *)
(* calculateFees returns platformFee = floor(amount * b / 10000) and       *)
(* workerAmount = amount - platformFee, so the two add up to the amount    *)
(* and 0 <= platformFee <= amount; 100000 at 5 percent splits 95000/5000.  *)
C27_FeeSplit ==
    fees.called
       => /\ fees.platformFee * 10000 <= fees.totalAtomic * fees.basisPoints
          /\ fees.totalAtomic * fees.basisPoints < (fees.platformFee + 1) * 10000
          /\ fees.workerAmount = fees.totalAtomic - fees.platformFee
          /\ fees.workerAmount + fees.platformFee = fees.totalAtomic
          /\ 0 <= fees.platformFee /\ fees.platformFee <= fees.totalAtomic
          /\ (fees.totalAtomic = 100000 /\ fees.basisPoints = feePercent)
                => (fees.workerAmount = 95000 /\ fees.platformFee = 5000)

(* C27 case: a split whose exact fee is not a whole number was computed,   *)
(* and the remainder went to the worker.                                   *)
C27_RemainderToWorker ==
    /\ fees.called
    /\ (fees.totalAtomic * fees.basisPoints) % 10000 # 0
    /\ fees.platformFee > 0
    /\ fees.workerAmount + fees.platformFee = fees.totalAtomic

(* C28: in every state a job has a stored result exactly when its status   *)
(* is COMPLETED or PAID.                                                   *)
C28_ResultIffCompleted ==
    \A j \in Jobs : hasResult(jobs[j]) <=> jobs[j].status \in {COMPLETED, PAID}

(* C28 case: a job whose result was stored by complete has been paid and   *)
(* still has it, after a complete request that lost was refused.           *)
C28_PaidKeepsResult ==
    \E j \in Jobs :
       /\ jobs[j].status = PAID
       /\ hasResult(jobs[j])
       /\ resp.op = "complete" /\ resp.code = 400 /\ resp.job = j

(* C29: every job that is CLAIMED, COMPLETED or PAID has a workerWallet,   *)
(* and it is not the job's requesterWallet.                                *)
C29_WorkerIsNotRequester ==
    \A j \in Jobs :
       jobs[j].status \in {CLAIMED, COMPLETED, PAID}
          => (jobs[j].workerWallet # NoWallet
                /\ jobs[j].workerWallet # jobs[j].requesterWallet)

(* C29 case: a claim was accepted and the job went on to COMPLETED with    *)
(* the claimant as workerWallet; a claim by the requester would have been  *)
(* refused on every OPEN job.                                              *)
C29_ClaimedByAnother ==
    \E j \in Jobs :
       /\ jobs[j].status = COMPLETED
       /\ claimWins[j] = <<jobs[j].workerWallet>>
       /\ jobs[j].workerWallet \in Workers
       /\ jobs[j].requesterWallet = Requester

(* C30: in every state the timestamps that are set on a job are ordered    *)
(* along the lifecycle: createdAt <= claimedAt <= completedAt <= paidAt.   *)
C30_TimestampsOrdered ==
    \A j \in Jobs :
       LET job == jobs[j] IN
       /\ job.claimedAt # 0 => (job.createdAt # 0 /\ job.createdAt <= job.claimedAt)
       /\ job.completedAt # 0 => (job.claimedAt # 0 /\ job.claimedAt <= job.completedAt)
       /\ job.paidAt # 0 => (job.completedAt # 0 /\ job.completedAt <= job.paidAt)

(* C30 case: a job went through claim, complete and two recordings of a    *)
(* payment, the second rewriting paidAt.                                   *)
C30_PaidAtRewritten ==
    \E j \in Jobs :
       /\ jobs[j].status = PAID
       /\ jobs[j].paidWrites = 2
       /\ jobs[j].paidAt > jobs[j].completedAt + 1

----------------------------------------------------------------------------
(* C31: once a job is stored, no operation changes its id (its place in   *)
(* the store), its bountyUsdc, its bountyAtomic or its requesterWallet,   *)
(* and no operation removes it from the store.                            *)
C31_CreationFieldsFrozen ==
    [][\A j \in Jobs :
          jobs[j].status # ABSENT =>
             /\ jobs'[j].status # ABSENT
             /\ jobs'[j].bountyUsdc = jobs[j].bountyUsdc
             /\ jobs'[j].bountyAtomic = jobs[j].bountyAtomic
             /\ jobs'[j].requesterWallet = jobs[j].requesterWallet]_vars

(* A job that went through its whole lifecycle and still carries what     *)
(* createJob wrote.                                                        *)
C31_PaidJobKeepsFields ==
    \E j \in Jobs :
       /\ jobs[j].status = PAID
       /\ jobs[j].paidWrites > 0
       /\ jobs[j].bountyAtomic = 40 /\ jobs[j].bountyUsdc = 40
       /\ jobs[j].requesterWallet = Requester

----------------------------------------------------------------------------
(* C39: every job that create accepted has bountyAtomic >= 1: no accepted *)
(* positive bountyUsdc rounds to 0 atomic units.                          *)
C39_AcceptedBountyAtLeastOne ==
    \A j \in Jobs : jobs[j].status # ABSENT => jobs[j].bountyAtomic >= 1

----------------------------------------------------------------------------
(* C32: for every client and every interval of the window's length, at    *)
(* most MaxRequests of the client's requests are let through; the         *)
(* requests beyond are answered 429 with a retry-after.                    *)
C32_SlidingWindowLimit ==
    LET RECURSIVE AdmittedFrom(_, _, _)
        AdmittedFrom(ip, t, n) ==
            IF n = 0 \/ t > MaxNow THEN 0
            ELSE limiter.admitted[ip][t] + AdmittedFrom(ip, t + 1, n - 1)
    IN  /\ \A ip \in IPs : \A t \in Ticks :
              AdmittedFrom(ip, t, WindowTicks) <= MaxRequests
        /\ limiter.reply.code = 429 => limiter.reply.retryAfter >= 0

----------------------------------------------------------------------------
(* C33: whatever release attempts are made for one job, also when a       *)
(* release whose confirmation timed out lands later and the release is    *)
(* retried, the releases executed on the chain transfer in total no more  *)
(* than the amountAtomic of the job's escrow record.                      *)
C33_ReleasedAtMostAmount ==
    LET RECURSIVE Total(_)
        Total(transfers) ==
            IF transfers = {} THEN 0
            ELSE LET t == CHOOSE t \in transfers : TRUE
                 IN  t.amount + Total(transfers \ {t})
        RECURSIVE Released(_, _)
        Released(j, n) ==
            IF n = 0 THEN 0
            ELSE (IF out[j][n].kind = "release" /\ out[j][n].state = "landed"
                  THEN Total(out[j][n].transfers) ELSE 0) + Released(j, n - 1)
    IN  \A j \in Jobs :
           escrow[j].status # "none" => Released(j, Len(out[j])) <= escrow[j].amountAtomic

----------------------------------------------------------------------------
(* C34: a job whose escrow record is refunded is never CLAIMED, COMPLETED *)
(* or PAID: however a cancel request interleaves with claim and complete  *)
(* requests, either the escrow is refunded and the job is not claimed, or *)
(* the job is claimed and the escrow stays held.                          *)
C34_RefundedNeverClaimed ==
    \A j \in Jobs :
       escrow[j].status = "refunded" => jobs[j].status \notin {CLAIMED, COMPLETED, PAID}

----------------------------------------------------------------------------
(* C35: for one COMPLETED job, however result fetches that carry          *)
(* different signed payment transactions interleave, at most one payment  *)
(* transaction is submitted to the chain: the payer is not charged twice. *)
(* (Only one job reaches COMPLETED here, so every payment is for it.)     *)
C35_OnePaymentSubmitted ==
    Cardinality(payLanded \cup {q.tx : q \in {r \in Running : r.pc = "paywall_confirm"}}) <= 1

----------------------------------------------------------------------------
(* C36: verifyDeposit accepts a deposit, and creates an escrow record,    *)
(* only for a transfer from the job's requesterWallet to the escrow       *)
(* wallet of at least the expected amount; a sufficient transfer to the   *)
(* escrow wallet by any other sender is rejected.                         *)
C36_DepositFromRequester ==
    \A d \in depositOk :
       /\ DepositSender(d[2]) = jobs[d[1]].requesterWallet
       /\ \E c \in DepositCredits(d[2]) :
             c.owner = EscrowWallet /\ c.amount >= jobs[d[1]].bountyAtomic

----------------------------------------------------------------------------
(* C38: a confirmed escrow release moves exactly the record's amountAtomic *)
(* out of escrow (workerAmount to the worker plus platformFee to the      *)
(* platform); with no platform wallet configured the worker receives the  *)
(* full amountAtomic, the amount the paywall path requires the worker to  *)
(* receive in that configuration.                                          *)
C38_ReleaseMovesWholeAmount ==
    LET RECURSIVE Total(_)
        Total(transfers) ==
            IF transfers = {} THEN 0
            ELSE LET t == CHOOSE t \in transfers : TRUE
                 IN  t.amount + Total(transfers \ {t})
    IN  \A j \in Jobs : \A n \in 1..Len(out[j]) :
           (out[j][n].kind = "release" /\ out[j][n].state = "landed") =>
              /\ Total(out[j][n].transfers) = escrow[j].amountAtomic
              /\ ~platformWallet =>
                    \E t \in out[j][n].transfers :
                       /\ t.owner = jobs[j].workerWallet
                       /\ t.amount = escrow[j].amountAtomic
                       /\ t.amount = minAcceptable(jobs[j].bountyAtomic, platformWallet)

----------------------------------------------------------------------------
(* C37: a lifecycle event is published only after its transition was      *)
(* committed (job.new once the job left PENDING_DEPOSIT for OPEN,         *)
(* job.claimed once CLAIMED, job.completed once COMPLETED, job.paid once  *)
(* PAID), and each of the four events is published at most once per job,  *)
(* also when result fetches overlap.                                       *)
C37_EventsAfterCommitOnce ==
    \A j \in Jobs :
       /\ events[j].new > 0 => jobs[j].depositTxSig # NoTx
       /\ events[j].claimed > 0 => jobs[j].claimedWrites > 0
       /\ events[j].completed > 0 => jobs[j].completedWrites > 0
       /\ events[j].paid > 0 => jobs[j].status = PAID
       /\ \A type \in DOMAIN NoEvents : events[j][type] <= 1

====
